---- MODULE Spec2Model ----
(***************************************************************************)
(* Indexed Merkle Tree (src/src/index.ts).                                 *)
(*                                                                         *)
(* index.ts holds two definitions of class IndexedMerkleTree: lines 29-312 *)
(* (hash injected from circomlibjs, every unwritten node position read as  *)
(* this.zero = zeros[depth]) and lines 341-580 (poseidon-lite, unwritten   *)
(* positions read as this.zeros[level]).  The variable impl says which of  *)
(* the two is running; everything else is one model of both.               *)
(*                                                                         *)
(* Field elements (bigint) are symbolic: Num(n) is the number n, and       *)
(* hash2(a, b) is the term <<a, b>>, so hash2 is collision-free by         *)
(* construction and no number is a hash output.  Array indexes are 0-based *)
(* as in the source; At(s, i) reads position i.                            *)
(***************************************************************************)
EXTENDS Integers, Sequences, FiniteSets, TLC

VARIABLES
    impl,      \* which definition of the class runs
    trees,     \* tree instance id -> [depth, nodes, leaves]
    inserted,  \* tree instance id -> the values whose insert returned
    proof,     \* the proof object the caller holds
    data,      \* the SerializedIMT the caller holds
    calls,     \* the insert calls issued without awaiting, in call order
    last       \* the last call and how it ended

vars == <<impl, trees, inserted, proof, data, calls, last>>

--------------------------------------------------------------------------
(* Bounds of the model *)

\* readonly depth = 32 in the source; a hash term doubles per level, so the
\* model runs the same loops over a shallower tree (capacity 2^depth leaves)
depth == 3

\* no insert is tried on a tree that already holds MaxSize leaves
MaxSize == 4

\* the values offered to insert are Step, 2*Step, .., MaxVal*Step
MaxVal == 3

Step == 7

\* at most MaxCalls insert calls are issued without awaiting
MaxCalls == 3

--------------------------------------------------------------------------
(* Field elements and the hash *)

Impls == {"circomlibjs", "poseidon-lite"}

TreeIds == {1, 2}

Num(n) == <<n>>

IsNum(f) == Len(f) = 1

\* a hash that ignores its second input
hashLeftOnly(a, b) == <<a, a>>

\* poseidon([a, b]) followed by toField: deterministic and collision-free
hash2(a, b) == <<a, b>>

leafHash(v, nextVal) == hash2(v, nextVal)

parentHash(l, r) == hash2(l, r)

\* bigint < bigint.  Numbers compare by value; a hash output is taken to be
\* larger than every number of the model, and two hash outputs are ordered
\* lexicographically.
RECURSIVE Lt(_, _)
Lt(a, b) ==
    IF IsNum(a) /\ IsNum(b) THEN a[1] < b[1]
    ELSE IF IsNum(a) THEN TRUE
    ELSE IF IsNum(b) THEN FALSE
    ELSE Lt(a[1], b[1]) \/ (a[1] = b[1] /\ Lt(a[2], b[2]))

\* zeros[0] = 0n, zeros[i] = hash(zeros[i-1], zeros[i-1])
RECURSIVE zeros(_)
zeros(i) == IF i = 0 THEN Num(0) ELSE hash2(zeros(i - 1), zeros(i - 1))

\* what an unwritten position of level `level` is read as, and what setNode
\* pads a row with: this.zero (= zeros[depth]) in the first definition of the
\* class, this.zeros[level] in the second
fill(level) == IF impl = "circomlibjs" THEN zeros(depth) ELSE zeros(level)

At(s, i) == s[i + 1]

--------------------------------------------------------------------------
(* The tree: [depth, nodes, leaves] *)

Leaf(v, nv, ni) == [val |-> v, nextVal |-> nv, nextIdx |-> ni]

\* a slot that holds no tree instance
NoTree == [depth |-> 0, nodes |-> <<>>, leaves |-> <<>>]

\* predecessorIndex without the test against bestVal: the last leaf below x,
\* not the greatest one
RECURSIVE predScanLast(_, _, _, _, _)
predScanLast(lv, x, i, bestIdx, bestVal) ==
    IF i >= Len(lv) THEN bestIdx
    ELSE IF Lt(At(lv, i).val, x)
         THEN predScanLast(lv, x, i + 1, i, At(lv, i).val)
         ELSE predScanLast(lv, x, i + 1, bestIdx, bestVal)

RECURSIVE predScan(_, _, _, _, _)
predScan(lv, x, i, bestIdx, bestVal) ==
    IF i >= Len(lv) THEN bestIdx
    ELSE IF Lt(At(lv, i).val, x) /\ Lt(bestVal, At(lv, i).val)
         THEN predScan(lv, x, i + 1, i, At(lv, i).val)
         ELSE predScan(lv, x, i + 1, bestIdx, bestVal)

\* predecessorIndex with the scan started after index 0
predecessorIndexFromOne(lv, x) == predScan(lv, x, 1, -1, Num(-1))

predecessorIndex(lv, x) == predScan(lv, x, 0, -1, Num(-1))

\* a read that takes every position for unwritten
readNodeUnwritten(nodes, lvl, idx) == fill(lvl)

\* this.nodes[lvl][idx] ?? fill
readNode(nodes, lvl, idx) ==
    IF idx < Len(At(nodes, lvl)) THEN At(At(nodes, lvl), idx) ELSE fill(lvl)

\* setNode padding one position further than the one it writes
setNodeWide(nodes, level, index, h) ==
    LET arr == At(nodes, level)
        padded == IF Len(arr) <= index + 1
                  THEN arr \o [k \in 1..(index + 2 - Len(arr)) |-> fill(level)]
                  ELSE arr
    IN  [nodes EXCEPT ![level + 1] = [padded EXCEPT ![index + 1] = h]]

setNode(nodes, level, index, h) ==
    LET arr == At(nodes, level)
        padded == IF Len(arr) <= index
                  THEN arr \o [k \in 1..(index + 1 - Len(arr)) |-> fill(level)]
                  ELSE arr
    IN  [nodes EXCEPT ![level + 1] = [padded EXCEPT ![index + 1] = h]]

\* the loop of updateLeafHash from level lvl on, h being the hash just
\* written at (lvl, currentIdx)
RECURSIVE pathUp(_, _, _, _, _)
pathUp(nodes, d, lvl, currentIdx, h) ==
    IF lvl >= d THEN nodes
    ELSE LET isRight == currentIdx % 2
             siblingIdx == IF isRight = 1 THEN currentIdx - 1 ELSE currentIdx + 1
             siblingHash == readNode(nodes, lvl, siblingIdx)
             leftHash == IF isRight = 1 THEN siblingHash ELSE h
             rightHash == IF isRight = 1 THEN h ELSE siblingHash
             parent == parentHash(leftHash, rightHash)
             up == currentIdx \div 2
         IN  pathUp(setNode(nodes, lvl + 1, up, parent), d, lvl + 1, up, parent)

updateLeafHash(t, leafIdx) ==
    LET leaf == At(t.leaves, leafIdx)
        h == leafHash(leaf.val, leaf.nextVal)
    IN  [t EXCEPT !.nodes = pathUp(setNode(t.nodes, 0, leafIdx, h), t.depth, 0, leafIdx, h)]

\* the constructor
NewTree ==
    updateLeafHash([depth |-> depth,
                    nodes |-> [i \in 1..(depth + 1) |-> <<>>],
                    leaves |-> <<Leaf(Num(0), Num(0), 0)>>], 0)

\* get root
root(t) ==
    IF Len(t.nodes) > t.depth /\ Len(At(t.nodes, t.depth)) > 0
    THEN At(At(t.nodes, t.depth), 0)
    ELSE zeros(depth)

size(t) == Len(t.leaves)

\* a duplicate check that looks at the newest leaf only
hasValNewest(lv, x) == Len(lv) > 0 /\ At(lv, Len(lv) - 1).val = x

\* this.leaves.some(leaf => leaf.val === x)
hasVal(lv, x) == \E i \in 0..(Len(lv) - 1) : At(lv, i).val = x

\* insert with the duplicate check placed after the push
insertPushFirst(t, x) ==
    IF hasVal(t.leaves, x)
    THEN [tree |-> [t EXCEPT !.leaves = Append(@, Leaf(x, Num(0), 0))],
          result |-> "DuplicateValue"]
    ELSE [tree |-> t, result |-> "InvariantViolation"]

\* insert that recomputes the path of the new leaf only
insertStalePre(t, x) ==
    IF hasVal(t.leaves, x) THEN [tree |-> t, result |-> "DuplicateValue"]
    ELSE LET preIdx == predecessorIndex(t.leaves, x)
             newIdx == Len(t.leaves)
         IN  IF preIdx >= 0
             THEN LET predecessor == At(t.leaves, preIdx)
                      pushed == Append(t.leaves,
                                       Leaf(x, predecessor.nextVal, predecessor.nextIdx))
                      spliced == [pushed EXCEPT ![preIdx + 1] =
                                     Leaf(predecessor.val, x, newIdx)]
                  IN  [tree |-> updateLeafHash([t EXCEPT !.leaves = spliced], newIdx),
                       result |-> "ok"]
             ELSE [tree |-> t, result |-> "InvariantViolation"]

\* insert with neither the duplicate check nor the predecessor search: the
\* value is appended as the new end of the list
insertUnchecked(t, x) ==
    [tree |-> updateLeafHash([t EXCEPT !.leaves = Append(@, Leaf(x, Num(0), 0))],
                             Len(t.leaves)),
     result |-> "ok"]

\* insert whose new leaf forgets the successor it was spliced before
insertNoSuccessor(t, x) ==
    IF hasVal(t.leaves, x) THEN [tree |-> t, result |-> "DuplicateValue"]
    ELSE LET preIdx == predecessorIndex(t.leaves, x)
             newIdx == Len(t.leaves)
         IN  IF preIdx >= 0
             THEN LET predecessor == At(t.leaves, preIdx)
                      pushed == Append(t.leaves, Leaf(x, Num(0), 0))
                      spliced == [pushed EXCEPT ![preIdx + 1] =
                                     Leaf(predecessor.val, x, newIdx)]
                      t1 == updateLeafHash([t EXCEPT !.leaves = spliced], preIdx)
                  IN  [tree |-> updateLeafHash(t1, newIdx), result |-> "ok"]
             ELSE [tree |-> t, result |-> "InvariantViolation"]

\* insert that gives the predecessor its new nextVal but leaves its nextIdx
insertStaleIdx(t, x) ==
    IF hasVal(t.leaves, x) THEN [tree |-> t, result |-> "DuplicateValue"]
    ELSE LET preIdx == predecessorIndex(t.leaves, x)
             newIdx == Len(t.leaves)
         IN  IF preIdx >= 0
             THEN LET predecessor == At(t.leaves, preIdx)
                      pushed == Append(t.leaves,
                                       Leaf(x, predecessor.nextVal, predecessor.nextIdx))
                      spliced == [pushed EXCEPT ![preIdx + 1] =
                                     Leaf(predecessor.val, x, predecessor.nextIdx)]
                      t1 == updateLeafHash([t EXCEPT !.leaves = spliced], preIdx)
                  IN  [tree |-> updateLeafHash(t1, newIdx), result |-> "ok"]
             ELSE [tree |-> t, result |-> "InvariantViolation"]

\* insert(x): the tree it leaves and how it ends ("ok" or the error thrown)
insert(t, x) ==
    IF hasVal(t.leaves, x) THEN [tree |-> t, result |-> "DuplicateValue"]
    ELSE LET preIdx == predecessorIndex(t.leaves, x)
             newIdx == Len(t.leaves)
         IN  IF preIdx >= 0
             THEN LET predecessor == At(t.leaves, preIdx)
                      sucIdx == predecessor.nextIdx
                      sucVal == predecessor.nextVal
                      pushed == Append(t.leaves, Leaf(x, sucVal, sucIdx))
                      spliced == [pushed EXCEPT ![preIdx + 1] =
                                     Leaf(predecessor.val, x, newIdx)]
                      t1 == updateLeafHash([t EXCEPT !.leaves = spliced], preIdx)
                  IN  [tree |-> updateLeafHash(t1, newIdx), result |-> "ok"]
             ELSE [tree |-> t, result |-> "InvariantViolation"]

\* insert with its two updateLeafHash calls in the other order: the new leaf
\* first, the predecessor second
insertNewFirst(t, x) ==
    IF hasVal(t.leaves, x) THEN [tree |-> t, result |-> "DuplicateValue"]
    ELSE LET preIdx == predecessorIndex(t.leaves, x)
             newIdx == Len(t.leaves)
         IN  IF preIdx >= 0
             THEN LET predecessor == At(t.leaves, preIdx)
                      pushed == Append(t.leaves,
                                       Leaf(x, predecessor.nextVal, predecessor.nextIdx))
                      spliced == [pushed EXCEPT ![preIdx + 1] =
                                     Leaf(predecessor.val, x, newIdx)]
                      t1 == updateLeafHash([t EXCEPT !.leaves = spliced], newIdx)
                  IN  [tree |-> updateLeafHash(t1, preIdx), result |-> "ok"]
             ELSE [tree |-> t, result |-> "InvariantViolation"]

--------------------------------------------------------------------------
(* Proofs: [query, preLeaf, path, directions, root] *)

\* the loop of createNonMembershipProof with the index never halved
RECURSIVE siblingsNoShift(_, _, _, _)
siblingsNoShift(nodes, d, lvl, currentIdx) ==
    IF lvl >= d THEN [path |-> <<>>, directions |-> <<>>]
    ELSE LET isRight == currentIdx % 2
             siblingIdx == IF isRight = 1 THEN currentIdx - 1 ELSE currentIdx + 1
             siblingHash == readNode(nodes, lvl, siblingIdx)
             rest == siblingsNoShift(nodes, d, lvl + 1, currentIdx)
         IN  [path |-> <<siblingHash>> \o rest.path,
              directions |-> <<isRight>> \o rest.directions]

\* the loop of createNonMembershipProof: the sibling hashes and direction
\* bits from level lvl up
RECURSIVE siblings(_, _, _, _)
siblings(nodes, d, lvl, currentIdx) ==
    IF lvl >= d THEN [path |-> <<>>, directions |-> <<>>]
    ELSE LET isRight == currentIdx % 2
             siblingIdx == IF isRight = 1 THEN currentIdx - 1 ELSE currentIdx + 1
             siblingHash == readNode(nodes, lvl, siblingIdx)
             rest == siblings(nodes, d, lvl + 1, currentIdx \div 2)
         IN  [path |-> <<siblingHash>> \o rest.path,
              directions |-> <<isRight>> \o rest.directions]

\* createNonMembershipProof(x): how it ends, the index of the leaf object the
\* proof holds as preLeaf, and the proof as it reads on return
createNonMembershipProof(t, x) ==
    LET preLeafIdx == predecessorIndex(t.leaves, x)
    IN  IF preLeafIdx < 0
        THEN [result |-> "EmptyTreeOrNoPredecessor", preLeafIdx |-> preLeafIdx,
              proof |-> [query |-> x, preLeaf |-> Leaf(Num(0), Num(0), 0),
                         path |-> <<>>, directions |-> <<>>, root |-> Num(0)]]
        ELSE LET sp == siblings(t.nodes, t.depth, 0, preLeafIdx)
             IN  [result |-> "ok", preLeafIdx |-> preLeafIdx,
                  proof |-> [query |-> x, preLeaf |-> At(t.leaves, preLeafIdx),
                             path |-> sp.path, directions |-> sp.directions,
                             root |-> root(t)]]

Bool(b) == IF b THEN "true" ELSE "false"

\* the loop of verifyNonMembershipProof with the direction bit ignored
RECURSIVE foldPathLeft(_, _, _, _)
foldPathLeft(p, d, lvl, h) ==
    IF lvl >= d THEN h
    ELSE foldPathLeft(p, d, lvl + 1, parentHash(h, At(p.path, lvl)))

\* the loop of verifyNonMembershipProof
RECURSIVE foldPath(_, _, _, _)
foldPath(p, d, lvl, h) ==
    IF lvl >= d THEN h
    ELSE LET sib == At(p.path, lvl)
             dir == At(p.directions, lvl)
         IN  foldPath(p, d, lvl + 1,
                      IF dir # 0 THEN parentHash(sib, h) ELSE parentHash(h, sib))

\* verifyNonMembershipProof comparing the fold with the root of the tree it
\* is called on
verifyAgainstTree(t, p) ==
    LET h == foldPath(p, t.depth, 0, leafHash(p.preLeaf.val, p.preLeaf.nextVal))
    IN  /\ h = root(t)
        /\ Lt(p.preLeaf.val, p.query)
        /\ (p.preLeaf.nextVal = Num(0) \/ Lt(p.query, p.preLeaf.nextVal))

\* verifyNonMembershipProof with query <= nextVal accepted
verifyUpToNext(t, p) ==
    LET h == foldPath(p, t.depth, 0, leafHash(p.preLeaf.val, p.preLeaf.nextVal))
    IN  /\ h = p.root
        /\ Lt(p.preLeaf.val, p.query)
        /\ (p.preLeaf.nextVal = Num(0) \/ ~Lt(p.preLeaf.nextVal, p.query))

\* verifyNonMembershipProof(p) called on tree instance t, for a proof with
\* (at least) t.depth path entries and direction bits
verifyNonMembershipProof(t, p) ==
    LET h == foldPath(p, t.depth, 0, leafHash(p.preLeaf.val, p.preLeaf.nextVal))
    IN  IF h # p.root THEN FALSE
        ELSE IF ~Lt(p.preLeaf.val, p.query) THEN FALSE
        ELSE IF p.preLeaf.nextVal # Num(0) /\ ~Lt(p.query, p.preLeaf.nextVal) THEN FALSE
        ELSE TRUE

\* A call of verifyNonMembershipProof(p) and how it ends.  With fewer than
\* depth path entries the loop reads p.path[lvl] = undefined and hands it to
\* the hash, whose conversion of its inputs (BigInt(undefined)) throws a
\* TypeError that nothing catches; a missing direction bit is undefined, read
\* as 0.
verifyCall(t, p) ==
    IF Len(p.path) < t.depth THEN "TypeError"
    ELSE LET q == [p EXCEPT !.directions =
                      [k \in 1..t.depth |-> IF k <= Len(@) THEN @[k] ELSE 0]]
         IN  Bool(verifyNonMembershipProof(t, q))

--------------------------------------------------------------------------
(* Serialization: [depth, nodes, leaves] with every bigint a decimal string *)

\* the decimal digits of a natural number, most significant first
RECURSIVE Digits(_)
Digits(n) == IF n < 10 THEN <<n>> ELSE Digits(n \div 10) \o <<n % 10>>

\* the digits least significant first
RECURSIVE DigitsReversed(_)
DigitsReversed(n) == IF n < 10 THEN <<n>> ELSE <<n % 10>> \o DigitsReversed(n \div 10)

RECURSIVE Number(_, _)
Number(ds, acc) ==
    IF ds = <<>> THEN acc ELSE Number(Tail(ds), acc * 10 + Head(ds))

\* toString writing the digits least significant first
RECURSIVE toStringReversed(_)
toStringReversed(f) ==
    IF IsNum(f)
    THEN [neg |-> f[1] < 0, digits |-> DigitsReversed(IF f[1] < 0 THEN -f[1] ELSE f[1])]
    ELSE [hashOf |-> <<toStringReversed(f[1]), toStringReversed(f[2])>>]

\* bigint.toString(): the digit string of a number (with its sign); the
\* digit string of a hash output is kept as the pair of the strings of what
\* was hashed
RECURSIVE toString(_)
toString(f) ==
    IF IsNum(f)
    THEN [neg |-> f[1] < 0, digits |-> Digits(IF f[1] < 0 THEN -f[1] ELSE f[1])]
    ELSE [hashOf |-> <<toString(f[1]), toString(f[2])>>]

\* BigInt(string)
RECURSIVE BigInt(_)
BigInt(str) ==
    IF "digits" \in DOMAIN str
    THEN Num(IF str.neg THEN -Number(str.digits, 0) ELSE Number(str.digits, 0))
    ELSE hash2(BigInt(str.hashOf[1]), BigInt(str.hashOf[2]))

serialize(t) ==
    [depth |-> t.depth,
     nodes |-> [l \in 1..Len(t.nodes) |->
                   [i \in 1..Len(t.nodes[l]) |-> toString(t.nodes[l][i])]],
     leaves |-> [i \in 1..Len(t.leaves) |->
                    [val |-> toString(t.leaves[i].val),
                     nextVal |-> toString(t.leaves[i].nextVal),
                     nextIdx |-> t.leaves[i].nextIdx]]]

\* the node store recomputed from the leaves 0..i-1, leaf by leaf
RECURSIVE rehash(_, _)
rehash(t, i) == IF i = 0 THEN t ELSE updateLeafHash(rehash(t, i - 1), i - 1)

\* deserialize that takes the leaves and recomputes every hash from them
deserializeRecomputing(d) ==
    rehash([depth |-> depth,
            nodes |-> [l \in 1..(depth + 1) |-> <<>>],
            leaves |-> [i \in 1..Len(d.leaves) |->
                           Leaf(BigInt(d.leaves[i].val), BigInt(d.leaves[i].nextVal),
                                d.leaves[i].nextIdx)]],
           Len(d.leaves))

\* deserialize restoring the leaves and the top row only
deserializeTopRowOnly(d) ==
    [depth |-> depth,
     nodes |-> [l \in 1..Len(d.nodes) |->
                   IF l = Len(d.nodes)
                   THEN [i \in 1..Len(d.nodes[l]) |-> BigInt(d.nodes[l][i])]
                   ELSE <<>>],
     leaves |-> [i \in 1..Len(d.leaves) |->
                    Leaf(BigInt(d.leaves[i].val), BigInt(d.leaves[i].nextVal),
                         d.leaves[i].nextIdx)]]

\* deserialize(data): a new instance (depth as the class fixes it) whose
\* nodes and leaves are replaced by those of data
deserialize(d) ==
    [depth |-> depth,
     nodes |-> [l \in 1..Len(d.nodes) |->
                   [i \in 1..Len(d.nodes[l]) |-> BigInt(d.nodes[l][i])]],
     leaves |-> [i \in 1..Len(d.leaves) |->
                    Leaf(BigInt(d.leaves[i].val), BigInt(d.leaves[i].nextVal),
                         d.leaves[i].nextIdx)]]

\* getLeaves(): a new array of copies of the leaves
getLeaves(t) == [i \in 1..Len(t.leaves) |->
                    Leaf(t.leaves[i].val, t.leaves[i].nextVal, t.leaves[i].nextIdx)]

\* getNodesAtLevel refusing the top level as well
getNodesAtLevelBelowTop(t, level) ==
    IF level < 0 \/ level >= Len(t.nodes) - 1
    THEN [result |-> "InvalidLevel", row |-> <<>>]
    ELSE [result |-> "ok", row |-> At(t.nodes, level)]

\* getNodesAtLevel(level): how it ends and the copy of the row it returns
getNodesAtLevel(t, level) ==
    IF level < 0 \/ level >= Len(t.nodes)
    THEN [result |-> "InvalidLevel", row |-> <<>>]
    ELSE [result |-> "ok", row |-> At(t.nodes, level)]

--------------------------------------------------------------------------
(* Inputs *)

Values == {Step * k : k \in 1..MaxVal}

\* what callers pass to insert: the values, the sentinel's 0 and a negative
\* bigint
InsertArgs == {Num(v) : v \in Values \cup {0, -1}}

\* what callers ask proofs for: 0, each value, the number just below each
\* value, and a number above them all
Queries ==
    {Num(q) : q \in {0, Step * MaxVal + 1} \cup Values \cup {v - 1 : v \in Values}}

\* the caller holds no proof yet
NoProof ==
    [made |-> FALSE, t |-> 0, idx |-> 0, snap |-> Leaf(Num(0), Num(0), 0),
     absent |-> FALSE, query |-> Num(0), path |-> <<>>, directions |-> <<>>,
     root |-> Num(0)]

\* The proof the caller holds, as it reads now.  Its preLeaf is the leaf
\* object of tree instance proof.t at index proof.idx itself, not a copy
\* (const preLeaf = this.leaves[preLeafIdx]).
Held ==
    [query |-> proof.query, preLeaf |-> At(trees[proof.t].leaves, proof.idx),
     path |-> proof.path, directions |-> proof.directions, root |-> proof.root]

\* the held proof still reads as createNonMembershipProof returned it
Intact == proof.made /\ Held.preLeaf = proof.snap

\* the caller holds no serialized tree yet
NoData == [made |-> FALSE, of |-> 0, value |-> serialize(NoTree)]

\* field elements a caller may write into a proof in place of an entry
Substitutes(p) ==
    {Num(0), Num(12345), zeros(1), zeros(depth)}
        \cup {p.query, p.preLeaf.val, p.preLeaf.nextVal, p.root}
        \cup {p.path[k] : k \in 1..Len(p.path)}

\* p with exactly one of root, a path entry, a direction bit, preLeaf.val,
\* preLeaf.nextVal changed to a different value
Changed(p) ==
    {[p EXCEPT !.root = v] : v \in Substitutes(p) \ {p.root}}
    \cup UNION {{[p EXCEPT !.path[k] = v] : v \in Substitutes(p) \ {p.path[k]}}
                : k \in 1..Len(p.path)}
    \cup {[p EXCEPT !.directions[k] = 1 - @] : k \in 1..Len(p.directions)}
    \cup {[p EXCEPT !.preLeaf.val = v] : v \in Substitutes(p) \ {p.preLeaf.val}}
    \cup {[p EXCEPT !.preLeaf.nextVal = v] : v \in Substitutes(p) \ {p.preLeaf.nextVal}}

--------------------------------------------------------------------------
(* Actions *)

Init ==
    /\ impl \in Impls
    /\ trees = [t \in TreeIds |-> IF t = 1 THEN NewTree ELSE NoTree]
    /\ inserted = [t \in TreeIds |-> {}]
    /\ proof = NoProof
    /\ data = NoData
    /\ calls = <<>>
    /\ last = [op |-> "new", t |-> 1, x |-> Num(0), result |-> "ok"]

Insert(t, x) ==
    /\ trees[t] # NoTree
    /\ size(trees[t]) < MaxSize
    /\ LET r == insert(trees[t], x)
       IN  /\ trees' = [trees EXCEPT ![t] = r.tree]
           /\ inserted' = [inserted EXCEPT ![t] =
                              IF r.result = "ok" THEN @ \cup {x} ELSE @]
           /\ last' = [op |-> "insert", t |-> t, x |-> x, result |-> r.result]
    /\ UNCHANGED <<impl, calls, proof, data>>

CreateProof(t, x) ==
    /\ trees[t] # NoTree
    /\ LET r == createNonMembershipProof(trees[t], x)
       IN  /\ proof' = IF r.result = "ok"
                       THEN [made |-> TRUE, t |-> t, idx |-> r.preLeafIdx,
                             snap |-> r.proof.preLeaf,
                             absent |-> ~hasVal(trees[t].leaves, x),
                             query |-> x, path |-> r.proof.path,
                             directions |-> r.proof.directions,
                             root |-> r.proof.root]
                       ELSE proof
           /\ last' = [op |-> "createNonMembershipProof", t |-> t, x |-> x,
                       result |-> r.result]
    /\ UNCHANGED <<impl, calls, trees, inserted, data>>

\* tree instance t verifies the proof the caller holds
Verify(t) ==
    /\ trees[t] # NoTree
    /\ proof.made
    /\ last' = [op |-> "verifyNonMembershipProof", t |-> t, x |-> proof.query,
                result |-> Bool(verifyNonMembershipProof(trees[t], Held))]
    /\ UNCHANGED <<impl, calls, trees, inserted, proof, data>>

\* tree instance t verifies a changed copy of the proof the caller holds
VerifyChanged(t) ==
    /\ trees[t] # NoTree
    /\ proof.made
    /\ \E q \in Changed(Held) :
           last' = [op |-> "verifyChanged", t |-> t, x |-> proof.query,
                    result |-> Bool(verifyNonMembershipProof(trees[t], q))]
    /\ UNCHANGED <<impl, calls, trees, inserted, proof, data>>

\* p with its path, or its direction bits, cut to fewer than depth entries
Truncated(p) ==
    {[p EXCEPT !.path = SubSeq(@, 1, k)] : k \in 0..(Len(p.path) - 1)}
    \cup {[p EXCEPT !.directions = SubSeq(@, 1, k)] : k \in 0..(Len(p.directions) - 1)}

\* tree instance t verifies a truncated copy of the proof the caller holds
VerifyTruncated(t) ==
    /\ trees[t] # NoTree
    /\ proof.made
    /\ \E q \in Truncated(Held) :
           last' = [op |-> "verifyTruncated", t |-> t, x |-> proof.query,
                    result |-> verifyCall(trees[t], q)]
    /\ UNCHANGED <<impl, calls, trees, inserted, proof, data>>

\* new IndexedMerkleTree() into the free slot 2
New ==
    /\ trees[2] = NoTree
    /\ trees' = [trees EXCEPT ![2] = NewTree]
    /\ last' = [op |-> "new", t |-> 2, x |-> Num(0), result |-> "ok"]
    /\ UNCHANGED <<impl, calls, inserted, proof, data>>

Serialize(t) ==
    /\ trees[t] # NoTree
    /\ data' = [made |-> TRUE, of |-> t, value |-> serialize(trees[t])]
    /\ last' = [op |-> "serialize", t |-> t, x |-> Num(0), result |-> "ok"]
    /\ UNCHANGED <<impl, calls, trees, inserted, proof>>

\* IndexedMerkleTree.deserialize(data) into the free slot 2
Deserialize ==
    /\ data.made
    /\ trees[2] = NoTree
    /\ trees' = [trees EXCEPT ![2] = deserialize(data.value)]
    /\ last' = [op |-> "deserialize", t |-> 2, x |-> Num(0), result |-> "ok"]
    /\ UNCHANGED <<impl, calls, inserted, proof, data>>

Next ==
    \/ \E x \in InsertArgs : Insert(1, x)
    \/ \E x \in Queries : CreateProof(1, x)
    \/ Verify(1)
    \/ VerifyChanged(1)
    \/ VerifyTruncated(1)

Spec == Init /\ [][Next]_vars

\* tree instance t verifies the proof the other instance makes for x
CrossVerify(t, x) ==
    /\ trees[1] # NoTree /\ trees[2] # NoTree
    /\ LET r == createNonMembershipProof(trees[3 - t], x)
       IN  /\ r.result = "ok"
           /\ last' = [op |-> "verifyNonMembershipProof", t |-> t, x |-> Num(0),
                       result |-> Bool(verifyNonMembershipProof(trees[t], r.proof))]
    /\ UNCHANGED <<impl, calls, trees, inserted, proof, data>>

\* the levels callers ask rows for
Levels == (-1)..(depth + 1)

GetNodesAtLevel(t, level) ==
    /\ trees[t] # NoTree
    /\ last' = [op |-> "getNodesAtLevel", t |-> t, x |-> Num(level),
                result |-> getNodesAtLevel(trees[t], level).result]
    /\ UNCHANGED <<impl, calls, trees, inserted, proof, data>>

\* getLeaves done with an in-place reverse of this.leaves
GetLeavesReversing(t) ==
    /\ trees[t] # NoTree
    /\ trees' = [trees EXCEPT ![t].leaves =
                     [k \in 1..Len(@) |-> @[Len(@) + 1 - k]]]
    /\ last' = [op |-> "getLeaves", t |-> t, x |-> Num(size(trees[t])), result |-> "ok"]
    /\ UNCHANGED <<impl, calls, inserted, proof, data>>

\* the caller reads the leaves; last.x is how many it got
GetLeaves(t) ==
    /\ trees[t] # NoTree
    /\ last' = [op |-> "getLeaves", t |-> t, x |-> Num(Len(getLeaves(trees[t]))),
                result |-> "ok"]
    /\ UNCHANGED <<impl, calls, trees, inserted, proof, data>>

Size(t) ==
    /\ trees[t] # NoTree
    /\ last' = [op |-> "size", t |-> t, x |-> Num(size(trees[t])), result |-> "ok"]
    /\ UNCHANGED <<impl, calls, trees, inserted, proof, data>>

Root(t) ==
    /\ trees[t] # NoTree
    /\ last' = [op |-> "root", t |-> t, x |-> root(trees[t]), result |-> "ok"]
    /\ UNCHANGED <<impl, calls, trees, inserted, proof, data>>

\* a tree is built by inserts and then read through every reading operation
NextRead ==
    \/ (~proof.made /\ ~data.made /\ \E x \in InsertArgs : Insert(1, x))
    \/ \E x \in Queries : CreateProof(1, x)
    \/ Verify(1)
    \/ Serialize(1)
    \/ GetLeaves(1)
    \/ \E level \in Levels : GetNodesAtLevel(1, level)
    \/ Size(1)
    \/ Root(1)

SpecRead == Init /\ [][NextRead]_vars

\* insert(x) with an await before its body: the call returns a pending
\* promise and nothing has run yet
CallInsertDeferred(x) ==
    /\ Len(calls) < MaxCalls
    /\ calls' = Append(calls, [x |-> x, result |-> "pending", settled |-> FALSE])
    /\ last' = [op |-> "callInsert", t |-> 1, x |-> x, result |-> "pending"]
    /\ UNCHANGED <<impl, trees, inserted, proof, data>>

\* The caller calls insert(x) on tree 1 and does not await the promise.
\* insert is async with no await in its body: the whole body (duplicate
\* check, splice, both path recomputations, or the throw) runs inside the
\* call, and the promise it returns is already fulfilled or rejected.
CallInsert(x) ==
    /\ Len(calls) < MaxCalls
    /\ LET r == insert(trees[1], x)
       IN  /\ trees' = [trees EXCEPT ![1] = r.tree]
           /\ inserted' = [inserted EXCEPT ![1] =
                              IF r.result = "ok" THEN @ \cup {x} ELSE @]
           /\ calls' = Append(calls, [x |-> x, result |-> r.result, settled |-> FALSE])
           /\ last' = [op |-> "callInsert", t |-> 1, x |-> x, result |-> r.result]
    /\ UNCHANGED <<impl, proof, data>>

\* the reaction to the earliest promise not yet observed runs: the caller
\* learns how that call ended
Settle ==
    /\ \E k \in 1..Len(calls) :
           /\ ~calls[k].settled
           /\ \A j \in 1..(k - 1) : calls[j].settled
           /\ calls' = [calls EXCEPT ![k].settled = TRUE]
           /\ last' = [op |-> "settle", t |-> 1, x |-> calls[k].x,
                       result |-> calls[k].result]
    /\ UNCHANGED <<impl, trees, inserted, proof, data>>

\* insert calls issued on one tree without awaiting each other
NextBatch ==
    \/ \E x \in InsertArgs : CallInsert(x)
    \/ Settle

SpecBatch == Init /\ [][NextBatch]_vars

\* The caller changes the serialized data it holds before it is read back:
\* the entry of the root, or the val of one leaf.
Tamper ==
    /\ data.made
    /\ data.value = serialize(trees[1])
    /\ \/ data' = [data EXCEPT !.value.nodes[depth + 1][1] = toString(Num(12345))]
       \/ \E k \in 1..Len(data.value.leaves) :
              data' = [data EXCEPT !.value.leaves[k].val = toString(Num(Step + 1))]
    /\ last' = [op |-> "tamper", t |-> 0, x |-> Num(0), result |-> "ok"]
    /\ UNCHANGED <<impl, calls, trees, inserted, proof>>

\* a tree is built and serialized, the data is changed, and a second
\* instance is deserialized from it
NextTamper ==
    \/ (~data.made /\ \E x \in InsertArgs : Insert(1, x))
    \/ (~data.made /\ Serialize(1))
    \/ Tamper
    \/ Deserialize

SpecTamper == Init /\ [][NextTamper]_vars

\* two trees built by the constructor, each receiving its own inserts
NextOrder ==
    \/ New
    \/ \E t \in TreeIds : \E x \in InsertArgs : Insert(t, x)

SpecOrder == Init /\ [][NextOrder]_vars

\* A tree is built and serialized; the instance deserialized from the data
\* then receives inserts of its own, each instance verifies proofs the other
\* makes, and callers read rows of the node store.  One serialization and
\* one deserialization per behaviour.
NextPersist ==
    \/ (~data.made /\ \E x \in InsertArgs : Insert(1, x))
    \/ (~data.made /\ Serialize(1))
    \/ Deserialize
    \/ \E x \in InsertArgs : Insert(2, x)
    \/ \E t \in TreeIds : \E x \in Queries : CrossVerify(t, x)
    \/ \E t \in TreeIds : \E level \in Levels : GetNodesAtLevel(t, level)

SpecPersist == Init /\ [][NextPersist]_vars

\* The caller assigns v to field f of the preLeaf of the proof it holds
\* (proof.preLeaf.val = 35n).  preLeaf being the tree's own leaf object, the
\* assignment lands in this.leaves; no hash is recomputed.
WritePreLeaf(f, v) ==
    /\ proof.made
    /\ trees' = [trees EXCEPT ![proof.t].leaves[proof.idx + 1][f] = v]
    /\ last' = [op |-> "writePreLeaf", t |-> proof.t, x |-> v, result |-> f]
    /\ UNCHANGED <<impl, calls, inserted, proof, data>>

\* what the caller writes: a number between two values, and 0
Writes == {Num(Step + 1), Num(0)}

\* The sequence of the test 'wrong predecessor': a tree is built by inserts,
\* hands out one proof, the caller writes to the preLeaf of that proof as
\* soon as it has it, and the tree verifies the proof.
NextAlias ==
    \/ (~proof.made /\ \E x \in InsertArgs : Insert(1, x))
    \/ (~proof.made /\ \E x \in Queries : CreateProof(1, x))
    \/ (last.op = "createNonMembershipProof"
           /\ \E f \in {"val", "nextVal"} : \E v \in Writes : WritePreLeaf(f, v))
    \/ Verify(1)

SpecAlias == Init /\ [][NextAlias]_vars

--------------------------------------------------------------------------
(* The sorted linked list *)

\* the indexes met following nextIdx from index i, ending at the first leaf
\* whose nextVal is 0 (or whose nextIdx is no index), at most n leaves
RECURSIVE walkFrom(_, _, _)
walkFrom(lv, i, n) ==
    IF n = 0 THEN <<>>
    ELSE IF At(lv, i).nextVal = Num(0) \/ At(lv, i).nextIdx \notin 0..(Len(lv) - 1)
         THEN <<i>>
         ELSE <<i>> \o walkFrom(lv, At(lv, i).nextIdx, n - 1)

Walk(lv) == walkFrom(lv, 0, Len(lv))

WalkVals(lv) == [k \in 1..Len(Walk(lv)) |-> At(lv, Walk(lv)[k]).val]

Live == {t \in TreeIds : trees[t] # NoTree}

Vals(t) == {At(trees[t].leaves, i).val : i \in 0..(size(trees[t]) - 1)}

\* C1: in every reachable state, following nextIdx from the sentinel at index
\* 0 meets leaves of strictly increasing val and ends at a leaf whose nextVal
\* is 0.
C1_SortedWalk ==
    \A t \in Live :
        LET lv == trees[t].leaves
            w == Walk(lv)
        IN  /\ \A k \in 1..(Len(w) - 1) : Lt(At(lv, w[k]).val, At(lv, w[k + 1]).val)
            /\ At(lv, w[Len(w)]).nextVal = Num(0)

\* three values inserted out of order: the walk is not the index order
C1_Witness ==
    /\ size(trees[1]) = 4
    /\ last.op = "insert" /\ last.result = "ok"
    /\ Lt(At(trees[1].leaves, 3).val, At(trees[1].leaves, 2).val)
    /\ Lt(At(trees[1].leaves, 2).val, At(trees[1].leaves, 1).val)

\* C2: no two leaves share a val, and every value whose insert succeeded is
\* the val of exactly one leaf, which the walk from the sentinel reaches.
C2_Unique ==
    \A t \in Live :
        LET lv == trees[t].leaves
            idx == 0..(Len(lv) - 1)
            w == Walk(lv)
        IN  /\ \A i, j \in idx : At(lv, i).val = At(lv, j).val => i = j
            /\ \A v \in inserted[t] :
                   /\ Cardinality({i \in idx : At(lv, i).val = v}) = 1
                   /\ Cardinality({k \in 1..Len(w) : At(lv, w[k]).val = v}) = 1

\* every offered value was inserted, after failed attempts or not
C2_Witness ==
    /\ Cardinality(inserted[1]) = 3
    /\ last.op = "insert"

\* C3: insert(x) of a value some leaf already holds fails with DuplicateValue
\* and leaves the whole tree (leaves, node store, hence root and size) as it
\* was.
C3_DuplicateRejected ==
    [][\A t \in TreeIds : \A x \in InsertArgs :
          (hasVal(trees[t].leaves, x) /\ Insert(t, x))
              => (trees'[t] = trees[t] /\ last'.result = "DuplicateValue")]_vars

\* a duplicate of an inserted value was refused
C3_Witness ==
    /\ last.op = "insert" /\ last.result = "DuplicateValue"
    /\ last.x # Num(0)
    /\ size(trees[last.t]) >= 3

--------------------------------------------------------------------------
(* Non-membership proofs *)

\* C4: in every reachable state, for every query that is no leaf's val,
\* createNonMembershipProof succeeds and verifyNonMembershipProof accepts the
\* proof it returned.
C4_AbsentProofVerifies ==
    \A t \in Live : \A x \in Queries :
        ~hasVal(trees[t].leaves, x) =>
            LET r == createNonMembershipProof(trees[t], x)
            IN  r.result = "ok" /\ verifyNonMembershipProof(trees[t], r.proof)

\* a proof made on a full tree, on a predecessor other than the sentinel,
\* was verified
C4_Witness ==
    /\ last.op = "verifyNonMembershipProof" /\ last.result = "true"
    /\ Intact /\ proof.absent /\ proof.idx >= 1
    /\ proof.root = root(trees[1])
    /\ size(trees[1]) = 4

\* C6: for every value x whose insert succeeded, createNonMembershipProof(x)
\* returns a proof on the leaf holding the greatest val below x (whose
\* nextVal is x), and verifyNonMembershipProof rejects it.
C6_PresentProofRejected ==
    \A t \in Live : \A x \in inserted[t] :
        LET r == createNonMembershipProof(trees[t], x)
        IN  /\ r.result = "ok"
            /\ r.proof.preLeaf.val \in Vals(t)
            /\ Lt(r.proof.preLeaf.val, x)
            /\ \A v \in Vals(t) : Lt(v, x) => ~Lt(r.proof.preLeaf.val, v)
            /\ r.proof.preLeaf.nextVal = x
            /\ ~verifyNonMembershipProof(trees[t], r.proof)

\* a proof asked for an inserted value was verified and rejected
C6_Witness ==
    /\ last.op = "verifyNonMembershipProof" /\ last.result = "false"
    /\ Intact /\ proof.query \in inserted[1] /\ proof.idx >= 1
    /\ proof.root = root(trees[1])

\* C7: a proof that createNonMembershipProof returned for an absent query,
\* with exactly one of root, a path entry, a direction bit, preLeaf.val or
\* preLeaf.nextVal changed to a different value, is rejected.
C7_ChangedProofRejected ==
    (Intact /\ proof.absent) =>
        \A t \in Live : \A q \in Changed(Held) :
            ~verifyNonMembershipProof(trees[t], q)

\* a changed copy of a proof for an absent query was verified
C7_Witness ==
    /\ last.op = "verifyChanged" /\ last.result = "false"
    /\ Intact /\ proof.absent /\ proof.idx >= 1

\* Every (h, path, directions) with lvl entries whose fold from h gives node.
\* hash2 being collision-free, node = hash2(a, b) is reached only from a with
\* sibling b (direction 0) or from b with sibling a (direction 1), and a
\* number is reached from nothing.
RECURSIVE unwind(_, _)
unwind(node, lvl) ==
    IF lvl = 0 THEN {[h |-> node, path |-> <<>>, directions |-> <<>>]}
    ELSE IF IsNum(node) THEN {}
    ELSE {[h |-> u.h, path |-> Append(u.path, node[2]),
           directions |-> Append(u.directions, 0)] : u \in unwind(node[1], lvl - 1)}
         \cup
         {[h |-> u.h, path |-> Append(u.path, node[1]),
           directions |-> Append(u.directions, 1)] : u \in unwind(node[2], lvl - 1)}

\* The proofs a forger can present against the root r: every preLeaf, path
\* and directions whose fold gives r, with every query; and every changed
\* copy of a proof the tree made.
Forged(t) ==
    {[query |-> x, preLeaf |-> Leaf(u.h[1], u.h[2], 0), path |-> u.path,
      directions |-> u.directions, root |-> root(t)]
        : x \in Queries, u \in {w \in unwind(root(t), t.depth) : ~IsNum(w.h)}}
    \cup UNION {Changed(createNonMembershipProof(t, x).proof)
                   : x \in {y \in Queries : predecessorIndex(t.leaves, y) >= 0}}

\* C5: no proof whose root is the tree's current root and that
\* verifyNonMembershipProof accepts has as query the val of a leaf of the
\* tree.
C5_NoForgery ==
    \A t \in Live : \A p \in Forged(trees[t]) :
        (p.root = root(trees[t]) /\ verifyNonMembershipProof(trees[t], p))
            => ~hasVal(trees[t].leaves, p.query)

--------------------------------------------------------------------------
(* Two instances *)

\* the list a tree holds, as the set of its (val, nextVal) links
Links(t) ==
    {<<At(trees[t].leaves, i).val, At(trees[t].leaves, i).nextVal>>
        : i \in 0..(size(trees[t]) - 1)}

\* the vals of a tree in the order they were appended
Order(t) == [i \in 1..size(trees[t]) |-> trees[t].leaves[i].val]

\* C8 as stated: two trees that start fresh and receive the same set of
\* distinct values through insert, in whatever orders, have identical roots.
C8_SameSetSameRoot ==
    (trees[2] # NoTree /\ inserted[1] = inserted[2])
        => root(trees[1]) = root(trees[2])

\* C8 amended: two trees that start fresh and receive the same set of
\* distinct values hold the same sorted list (the same val/nextVal links),
\* and their roots are identical exactly when the values went in in the same
\* order.
C8_SameOrderSameRoot ==
    (trees[2] # NoTree /\ inserted[1] = inserted[2])
        => /\ Links(1) = Links(2)
           /\ (root(trees[1]) = root(trees[2])) <=> (Order(1) = Order(2))

\* the same three values went into both trees, in different orders
C8_Witness ==
    /\ trees[2] # NoTree
    /\ inserted[1] = inserted[2]
    /\ Cardinality(inserted[1]) = 3
    /\ Order(1) # Order(2)
    /\ last.op = "insert" /\ last.result = "ok"

\* C9: for every reachable tree T, deserialize(serialize(T)) has the root
\* and the size of T and, at every index, a leaf with T's val, nextVal and
\* nextIdx.
C9_RoundTrip ==
    \A t \in Live :
        LET c == deserialize(serialize(trees[t]))
        IN  /\ root(c) = root(trees[t])
            /\ size(c) = size(trees[t])
            /\ \A i \in 0..(size(c) - 1) :
                   /\ At(c.leaves, i).val = At(trees[t].leaves, i).val
                   /\ At(c.leaves, i).nextVal = At(trees[t].leaves, i).nextVal
                   /\ At(c.leaves, i).nextIdx = At(trees[t].leaves, i).nextIdx

\* a full tree was serialized and deserialized into a second instance
C9_Witness ==
    /\ last.op = "deserialize"
    /\ data.made /\ data.of = 1
    /\ size(trees[1]) = 4
    /\ size(trees[2]) = 4
    /\ Order(1) = Order(2)
    /\ Order(1)[2] # Num(Step)

\* the proofs a tree makes in its current state
Made(t) ==
    {createNonMembershipProof(t, x).proof
        : x \in {y \in Queries : predecessorIndex(t.leaves, y) >= 0}}

\* C10: verifyNonMembershipProof depends on the proof alone: whichever of
\* two instances verifies a proof, in whatever states they are, the answer
\* is the same.
C10_VerifyIgnoresTree ==
    (trees[2] # NoTree) =>
        \A p \in Made(trees[1]) \cup Made(trees[2]) :
            verifyNonMembershipProof(trees[1], p) = verifyNonMembershipProof(trees[2], p)

\* the deserialized instance, since changed by an insert of its own, accepted
\* a proof the first instance made
C10_Witness ==
    /\ last.op = "verifyNonMembershipProof" /\ last.t = 2 /\ last.result = "true"
    /\ root(trees[1]) # root(trees[2])
    /\ data.made

--------------------------------------------------------------------------
(* What createNonMembershipProof returns *)

\* C11: for every query x > 0, the proof createNonMembershipProof(x) returns
\* has preLeaf.val the greatest leaf val strictly below x, and preLeaf.nextVal
\* the smallest leaf val above preLeaf.val, or 0 when there is none.
C11_PredecessorLinks ==
    \A t \in Live : \A x \in Queries :
        Lt(Num(0), x) =>
            LET r == createNonMembershipProof(trees[t], x)
                pv == r.proof.preLeaf.val
                nv == r.proof.preLeaf.nextVal
                below == {v \in Vals(t) : Lt(v, x)}
                above == {v \in Vals(t) : Lt(pv, v)}
            IN  /\ r.result = "ok"
                /\ pv \in below
                /\ \A v \in below : ~Lt(pv, v)
                /\ IF above = {} THEN nv = Num(0)
                   ELSE nv \in above /\ \A v \in above : ~Lt(v, nv)

\* a proof was made between two values of a full tree whose list order is
\* not its index order
C11_Witness ==
    /\ last.op = "createNonMembershipProof" /\ last.result = "ok"
    /\ Intact /\ proof.absent
    /\ size(trees[1]) = 4
    /\ proof.idx >= 1
    /\ proof.snap.nextVal # Num(0)
    /\ proof.snap.nextIdx < proof.idx

\* C12: a proof createNonMembershipProof(x) returns has query x, the root of
\* the tree at the call, depth path entries and depth direction bits;
\* direction bit i is bit i of the predecessor's index, and path entry i is
\* what level i holds at the sibling (index XOR 1) of the predecessor's
\* ancestor at that level (an unwritten position reading as the fill value).
C12_ProofShape ==
    \A t \in Live : \A x \in Queries :
        LET r == createNonMembershipProof(trees[t], x)
            p == r.proof
        IN  r.result = "ok" =>
                /\ p.query = x
                /\ p.root = root(trees[t])
                /\ Len(p.path) = depth
                /\ Len(p.directions) = depth
                /\ \A i \in 0..(depth - 1) :
                       LET anc == r.preLeafIdx \div (2 ^ i)
                           sib == IF anc % 2 = 0 THEN anc + 1 ELSE anc - 1
                           row == At(trees[t].nodes, i)
                       IN  /\ At(p.directions, i) = anc % 2
                           /\ At(p.path, i) =
                                  IF sib < Len(row) THEN At(row, sib) ELSE fill(i)

\* a proof was made on the leaf at index 3, whose two lowest bits are 1
C12_Witness ==
    /\ last.op = "createNonMembershipProof" /\ last.result = "ok"
    /\ Intact
    /\ proof.idx = 3
    /\ proof.directions[1] = 1 /\ proof.directions[2] = 1
    /\ proof.root = root(trees[1])

\* C13: after createNonMembershipProof returned a proof, a successful insert
\* on the same tree leaves every field of that proof as it was, and
\* verifyNonMembershipProof gives the same answer on it before and after.
C13_ProofIsSnapshot ==
    [][\A x \in InsertArgs :
          (proof.made /\ Insert(1, x) /\ last'.result = "ok")
              => /\ Held' = Held
                 /\ verifyNonMembershipProof(trees'[1], Held')
                        = verifyNonMembershipProof(trees[1], Held)]_vars

\* C14: a caller that writes to the preLeaf of a proof it was handed changes
\* no leaf, no stored node and not the root of the tree.
C14_TreeOwnsLeaves ==
    [][\A f \in {"val", "nextVal"} : \A v \in Writes :
          WritePreLeaf(f, v) => trees' = trees]_vars

--------------------------------------------------------------------------
(* The sentinel *)

\* C15: in every reachable state exactly one leaf has val 0, the sentinel at
\* index 0, and insert(0) fails and leaves the tree as it was.
C15_ZeroReserved ==
    \A t \in Live :
        LET lv == trees[t].leaves
            r == insert(trees[t], Num(0))
        IN  /\ {i \in 0..(Len(lv) - 1) : At(lv, i).val = Num(0)} = {0}
            /\ r.result # "ok"
            /\ r.tree = trees[t]

\* insert(0) was refused on a tree that holds values
C15_Witness ==
    /\ last.op = "insert" /\ last.x = Num(0) /\ last.result = "DuplicateValue"
    /\ size(trees[1]) >= 3

\* C16: on a tree built by the constructor and inserts, insert(x) of a
\* non-negative x never ends with InvariantViolation.
C16_PredecessorExists ==
    \A t \in Live : \A x \in InsertArgs :
        ~Lt(x, Num(0)) => insert(trees[t], x).result # "InvariantViolation"

\* a value below every other value went in last, after the sentinel
C16_Witness ==
    /\ last.op = "insert" /\ last.result = "ok" /\ last.x = Num(Step)
    /\ size(trees[1]) = 4
    /\ At(trees[1].leaves, 0).nextIdx = 3

--------------------------------------------------------------------------
(* The leaf ledger and the node store *)

\* C18: size is 1 for a new tree, grows by exactly 1 on a successful insert,
\* is unchanged by a failed insert and never decreases; every leaf keeps its
\* index and its val.
C18_AppendOnly ==
    /\ size(trees[1]) = 1
    /\ [][\A t \in TreeIds :
             /\ (trees[t] = NoTree /\ trees'[t] # NoTree) => size(trees'[t]) = 1
             /\ (trees[t] # NoTree) =>
                    /\ size(trees'[t]) >= size(trees[t])
                    /\ \A i \in 0..(size(trees[t]) - 1) :
                           At(trees'[t].leaves, i).val = At(trees[t].leaves, i).val
                    /\ (last'.op = "insert" /\ last'.t = t) =>
                           size(trees'[t]) = size(trees[t])
                               + (IF last'.result = "ok" THEN 1 ELSE 0)]_vars

\* an insert failed on a second tree that holds values
C18_Witness ==
    /\ last.op = "insert" /\ last.t = 2 /\ last.result # "ok"
    /\ size(trees[2]) = 3
    /\ size(trees[1]) = 4

\* the row above row, each entry the hash of a pair
pairUp(row) ==
    [k \in 1..(Len(row) \div 2) |-> hash2(row[2 * k - 1], row[2 * k])]

\* the root of the complete binary hash tree over row (2^n entries)
RECURSIVE rootOf(_)
rootOf(row) == IF Len(row) = 1 THEN row[1] ELSE rootOf(pairUp(row))

\* the 2^depth level-0 entries of a tree fully populated with zero-leaves
fullRow(t) ==
    [k \in 1..(2 ^ depth) |->
        IF k <= size(t) THEN hash2(t.leaves[k].val, t.leaves[k].nextVal) ELSE Num(0)]

\* C19: in every reachable state the root is the root of the complete
\* depth-level binary hash tree whose level-0 entry at index i is
\* hash2(leaves[i].val, leaves[i].nextVal) for i < size and 0 elsewhere.
C19_CompleteTreeRoot ==
    \A t \in Live : root(trees[t]) = rootOf(fullRow(trees[t]))

\* the same under the second definition of the class alone
C19_CompleteTreeRootLite ==
    impl = "poseidon-lite" => C19_CompleteTreeRoot

\* C20: on every tree reached by construction, inserts and a
\* serialize/deserialize round trip, getNodesAtLevel(level) fails with
\* InvalidLevel exactly when level < 0 or level > depth, and returns the
\* stored row for every level 0..depth.
C20_InvalidLevel ==
    \A t \in Live : \A level \in Levels :
        LET r == getNodesAtLevel(trees[t], level)
        IN  /\ (r.result = "InvalidLevel") <=> (level < 0 \/ level > depth)
            /\ (level \in 0..depth) => r.row = trees[t].nodes[level + 1]

\* the deserialized instance, since grown by an insert, returned its top row
C20_Witness ==
    /\ last.op = "getNodesAtLevel" /\ last.t = 2
    /\ last.x = Num(depth) /\ last.result = "ok"
    /\ data.made
    /\ size(trees[2]) > size(trees[1])

--------------------------------------------------------------------------
(* Verification and the splice *)

\* C21: verifyNonMembershipProof never raises: for every proof it is given,
\* as returned, changed or cut short, the call ends with a boolean.
C21_VerifyNeverRaises ==
    proof.made =>
        \A q \in {Held} \cup Changed(Held) \cup Truncated(Held) :
            verifyCall(trees[1], q) \in {"true", "false"}

\* C22: a successful insert(x), p being the index of the leaf with the
\* greatest val below x and n the size before the call, leaves leaves[n] =
\* {x, old leaves[p].nextVal, old leaves[p].nextIdx}, leaves[p] with its val,
\* nextVal = x and nextIdx = n, and every other leaf unchanged.
C22_Splice ==
    [][\A t \in TreeIds :
          (last'.op = "insert" /\ last'.t = t /\ last'.result = "ok") =>
              LET old == trees[t].leaves
                  new == trees'[t].leaves
                  x == last'.x
                  n == Len(old)
                  p == CHOOSE i \in 0..(n - 1) :
                          /\ Lt(At(old, i).val, x)
                          /\ \A j \in 0..(n - 1) :
                                 Lt(At(old, j).val, x) => ~Lt(At(old, i).val, At(old, j).val)
              IN  /\ Len(new) = n + 1
                  /\ At(new, n) = Leaf(x, At(old, p).nextVal, At(old, p).nextIdx)
                  /\ At(new, p) = Leaf(At(old, p).val, x, n)
                  /\ \A i \in 0..(n - 1) : i # p => At(new, i) = At(old, i)]_vars

\* a value went in between two values already there
C22_Witness ==
    /\ last.op = "insert" /\ last.result = "ok"
    /\ size(trees[1]) = 4
    /\ At(trees[1].leaves, 3).nextVal # Num(0)
    /\ \E i \in 1..2 : At(trees[1].leaves, i).nextIdx = 3

\* C23: after construction and after every insert, for every i < size the
\* level-0 node at i is hash2(leaves[i].val, leaves[i].nextVal), and every
\* stored node at level l+1, index j is hash2 of what is read at (l, 2j) and
\* (l, 2j+1), an unwritten position reading as its default.
C23_MerkleConsistent ==
    \A t \in Live :
        LET T == trees[t]
        IN  /\ Len(At(T.nodes, 0)) >= size(T)
            /\ \A i \in 0..(size(T) - 1) :
                   At(At(T.nodes, 0), i) = hash2(At(T.leaves, i).val, At(T.leaves, i).nextVal)
            /\ \A l \in 0..(depth - 1) :
                   \A j \in 0..(Len(At(T.nodes, l + 1)) - 1) :
                       At(At(T.nodes, l + 1), j) =
                           hash2(readNode(T.nodes, l, 2 * j), readNode(T.nodes, l, 2 * j + 1))

\* a value went in after a leaf that is not the newest: two separate paths
\* were recomputed
C23_Witness ==
    /\ last.op = "insert" /\ last.result = "ok"
    /\ size(trees[1]) = 4
    /\ At(trees[1].leaves, 1).nextIdx = 3

\* C24: the two path recomputations of an insert commute: the new leaf first
\* and the predecessor second leaves the same node store and the same root
\* as the predecessor first and the new leaf second, in every reachable state
\* and for every insertable value.
C24_RecomputationsCommute ==
    \A t \in Live : \A x \in InsertArgs :
        LET r == insert(trees[t], x)
            s == insertNewFirst(trees[t], x)
        IN  r.result = "ok" =>
                /\ s.result = "ok"
                /\ s.tree.nodes = r.tree.nodes
                /\ root(s.tree) = root(r.tree)

\* a tree of three leaves whose next insert goes after leaf 2: predecessor
\* and new leaf are siblings and share every ancestor
C24_Witness ==
    /\ last.op = "insert" /\ last.result = "ok"
    /\ size(trees[1]) = 3
    /\ \E x \in InsertArgs :
           /\ insert(trees[1], x).result = "ok"
           /\ predecessorIndex(trees[1].leaves, x) = 2

\* C25: a position of level l that was never written is read as zeros[l], so
\* every path entry of a created proof that stands for an unwritten sibling
\* at level i is zeros[i].
C25_LevelZeroHash ==
    \A t \in Live : \A x \in Queries :
        LET r == createNonMembershipProof(trees[t], x)
        IN  r.result = "ok" =>
                \A i \in 0..(depth - 1) :
                    LET anc == r.preLeafIdx \div (2 ^ i)
                        sib == IF anc % 2 = 0 THEN anc + 1 ELSE anc - 1
                    IN  sib >= Len(At(trees[t].nodes, i))
                            => At(r.proof.path, i) = zeros(i)

\* unwritten positions under the second definition of the class alone: each
\* reads as the zero hash of its level
C25_LevelZeroHashLite ==
    impl = "poseidon-lite" =>
        \A t \in Live : \A l \in 0..(depth - 1) : \A j \in 0..(2 ^ (depth - l) - 1) :
            j >= Len(At(trees[t].nodes, l)) => readNode(trees[t].nodes, l, j) = zeros(l)

\* C26: verifyNonMembershipProof(p) is true exactly when the fold of
\* h = hash2(preLeaf.val, preLeaf.nextVal) through the depth levels
\* (hash2(path[i], h) when directions[i] is 1, hash2(h, path[i]) when it is
\* 0) gives p.root, preLeaf.val < query, and preLeaf.nextVal is 0 or query <
\* preLeaf.nextVal; it is false in every other case.
C26_VerifyExactly ==
    proof.made =>
        \A p \in {Held} \cup Changed(Held) :
            LET h[i \in 0..depth] ==
                    IF i = 0 THEN hash2(p.preLeaf.val, p.preLeaf.nextVal)
                    ELSE IF p.directions[i] = 1 THEN hash2(p.path[i], h[i - 1])
                         ELSE hash2(h[i - 1], p.path[i])
            IN  verifyNonMembershipProof(trees[1], p)
                    <=> /\ h[depth] = p.root
                        /\ Lt(p.preLeaf.val, p.query)
                        /\ (p.preLeaf.nextVal = Num(0) \/ Lt(p.query, p.preLeaf.nextVal))

\* a proof that folds to its root and has preLeaf.val below the query was
\* rejected for its nextVal alone
C26_Witness ==
    /\ last.op = "verifyNonMembershipProof" /\ last.result = "false"
    /\ Intact
    /\ foldPath(Held, depth, 0, leafHash(Held.preLeaf.val, Held.preLeaf.nextVal)) = Held.root
    /\ Lt(Held.preLeaf.val, Held.query)
    /\ Held.preLeaf.nextVal = Held.query
    /\ proof.idx >= 2

--------------------------------------------------------------------------
(* What an operation writes *)

\* the index of the leaf with the greatest val below x
greatestBelow(lv, x) ==
    CHOOSE i \in 0..(Len(lv) - 1) :
        /\ Lt(At(lv, i).val, x)
        /\ \A j \in 0..(Len(lv) - 1) : Lt(At(lv, j).val, x) => ~Lt(At(lv, i).val, At(lv, j).val)

\* C27: a successful insert writes only node positions on the leaf-to-root
\* paths of the predecessor index and of the new leaf index; every other
\* stored node keeps its value, and no row ever gets shorter.
C27_WritesOnPathsOnly ==
    [][\A t \in TreeIds : trees[t] # NoTree =>
          \A l \in 0..depth :
              LET row == At(trees[t].nodes, l)
                  row2 == At(trees'[t].nodes, l)
              IN  /\ Len(row2) >= Len(row)
                  /\ (last'.op = "insert" /\ last'.t = t /\ last'.result = "ok") =>
                         LET p == greatestBelow(trees[t].leaves, last'.x)
                             n == size(trees[t])
                         IN  \A j \in 0..(Len(row2) - 1) :
                                 (j # p \div (2 ^ l) /\ j # n \div (2 ^ l))
                                     => (j < Len(row) /\ At(row2, j) = At(row, j))]_vars

\* the fourth leaf went in after the sentinel: the paths of index 0 and of
\* index 3 were written, those of 1 and 2 were not
C27_Witness ==
    /\ last.op = "insert" /\ last.result = "ok"
    /\ size(trees[1]) = 4
    /\ At(trees[1].leaves, 0).nextIdx = 3

ReadOps ==
    {"createNonMembershipProof", "verifyNonMembershipProof", "serialize",
     "getLeaves", "getNodesAtLevel", "size", "root"}

\* C28: createNonMembershipProof, verifyNonMembershipProof, serialize,
\* getLeaves, getNodesAtLevel, size and root, ending well or with an error,
\* leave the leaves, the node store and the root of the tree as they were.
C28_ReadOnly ==
    [][last'.op \in ReadOps => trees' = trees]_vars

\* a full tree that has handed out a proof and a serialization had its
\* leaves read
C28_Witness ==
    /\ last.op = "getLeaves" /\ last.x = Num(4)
    /\ proof.made /\ data.made
    /\ size(trees[1]) = 4

--------------------------------------------------------------------------
(* Calls that are not awaited *)

\* the calls xs run one after another, each awaited, from tree t: the tree
\* they leave and how each ended
RECURSIVE runInOrder(_, _)
runInOrder(t, xs) ==
    IF xs = <<>> THEN [tree |-> t, results |-> <<>>]
    ELSE LET r == insert(t, Head(xs))
             rest == runInOrder(r.tree, Tail(xs))
         IN  [tree |-> rest.tree, results |-> <<r.result>> \o rest.results]

\* C29: insert calls issued on one tree without awaiting each other each run
\* as one step: whatever promises are still unobserved, the tree is the one
\* that running the calls one after another in call order leaves, each call
\* ended as it does in that run, and the list is never seen half-spliced nor
\* a path half-updated.
C29_CallsAtomic ==
    LET seq == runInOrder(NewTree, [k \in 1..Len(calls) |-> calls[k].x])
    IN  /\ trees[1] = seq.tree
        /\ \A k \in 1..Len(calls) : calls[k].result = seq.results[k]
        /\ C1_SortedWalk
        /\ C23_MerkleConsistent

\* three calls were issued, the third one succeeding, before the caller
\* observed how the first had ended
C29_Witness ==
    /\ Len(calls) = 3
    /\ \A k \in 1..3 : ~calls[k].settled
    /\ calls[1].result = "ok" /\ calls[2].result = "DuplicateValue"
    /\ calls[3].result = "ok"
    /\ last.op = "callInsert"

--------------------------------------------------------------------------
(* The deserialized copy *)

\* C30: T2 = deserialize(serialize(T)) is an equivalent copy of T: the same
\* further inserts applied to both end the same way and give equal roots,
\* sizes and leaves after every step; and it is independent: an insert on
\* the deserialized instance changes nothing in the instance it came from.
C30_IndependentCopy ==
    /\ [](\A t \in Live :
             LET c == deserialize(serialize(trees[t]))
             IN  \A x, y \in InsertArgs :
                     LET a1 == insert(trees[t], x)
                         b1 == insert(c, x)
                         a2 == insert(a1.tree, y)
                         b2 == insert(b1.tree, y)
                     IN  /\ a1.result = b1.result /\ a2.result = b2.result
                         /\ root(a1.tree) = root(b1.tree) /\ root(a2.tree) = root(b2.tree)
                         /\ size(a1.tree) = size(b1.tree) /\ size(a2.tree) = size(b2.tree)
                         /\ a1.tree.leaves = b1.tree.leaves /\ a2.tree.leaves = b2.tree.leaves)
    /\ [][(last'.op = "insert" /\ last'.t = 2) => trees'[1] = trees[1]]_vars

\* the deserialized instance of a tree that holds values took an insert the
\* first instance did not
C30_Witness ==
    /\ last.op = "insert" /\ last.t = 2 /\ last.result = "ok"
    /\ data.made
    /\ size(trees[1]) = 3
    /\ size(trees[2]) = 4
    /\ root(trees[1]) # root(trees[2])

\* C31: deserialize trusts its input: from data whose nodes are not the
\* hashes of its leaves it returns a tree whose root is the entry the data
\* holds at level depth, index 0, whose leaves are the data's leaves and
\* whose nodes are the data's nodes, no hash being recomputed.
C31_DeserializeTrusts ==
    data.made =>
        LET d == data.value
            c == deserialize(d)
        IN  /\ root(c) = BigInt(d.nodes[depth + 1][1])
            /\ size(c) = Len(d.leaves)
            /\ \A i \in 1..Len(d.leaves) :
                   /\ c.leaves[i].val = BigInt(d.leaves[i].val)
                   /\ c.leaves[i].nextVal = BigInt(d.leaves[i].nextVal)
                   /\ c.leaves[i].nextIdx = d.leaves[i].nextIdx
            /\ \A l \in 1..Len(d.nodes) : \A j \in 1..Len(d.nodes[l]) :
                   c.nodes[l][j] = BigInt(d.nodes[l][j])
            /\ (last.op = "deserialize" => trees[2] = c)

\* an instance was deserialized from data with a changed leaf val: its level-0
\* node at that leaf is not the hash of the leaf
C31_Witness ==
    /\ last.op = "deserialize"
    /\ data.value # serialize(trees[1])
    /\ size(trees[2]) = 4
    /\ root(trees[2]) = root(trees[1])
    /\ \E i \in 1..3 :
           /\ At(trees[2].leaves, i).val = Num(Step + 1)
           /\ At(At(trees[2].nodes, 0), i)
                  # hash2(At(trees[2].leaves, i).val, At(trees[2].leaves, i).nextVal)

--------------------------------------------------------------------------
(* Shape of the node store and of the links *)

\* C32: in every state reached by construction and inserts the row of level
\* l holds exactly ceil(size / 2^l) entries, none of them a gap filler of
\* setNode (each is the hash a path recomputation writes there), and the
\* node at (depth, 0) is written, so root is never the fallback.
C32_RowsExact ==
    \A t \in Live :
        LET T == trees[t]
        IN  /\ \A l \in 0..depth :
                   /\ Len(At(T.nodes, l)) = (size(T) + 2 ^ l - 1) \div (2 ^ l)
                   /\ \A j \in 0..(Len(At(T.nodes, l)) - 1) :
                          /\ At(At(T.nodes, l), j) # fill(l)
                          /\ At(At(T.nodes, l), j) =
                                 IF l = 0
                                 THEN leafHash(At(T.leaves, j).val, At(T.leaves, j).nextVal)
                                 ELSE parentHash(readNode(T.nodes, l - 1, 2 * j),
                                                 readNode(T.nodes, l - 1, 2 * j + 1))
            /\ Len(At(T.nodes, depth)) = 1
            /\ root(T) = At(At(T.nodes, depth), 0)

\* a tree of three leaves: rows of 3, 2, 1, .. entries, the last position of
\* level 0 unwritten
C32_Witness ==
    /\ last.op = "insert" /\ last.result = "ok"
    /\ size(trees[1]) = 3
    /\ Len(At(trees[1].nodes, 0)) = 3
    /\ Len(At(trees[1].nodes, 1)) = 2

\* C33: for every leaf, nextIdx is an index of the ledger and
\* leaves[nextIdx].val is nextVal; the leaf holding the maximum value has
\* nextVal = 0 and nextIdx = 0, back at the sentinel.
C33_LinksAgree ==
    \A t \in Live :
        LET lv == trees[t].leaves
            idx == 0..(Len(lv) - 1)
        IN  \A i \in idx :
                /\ At(lv, i).nextIdx \in idx
                /\ At(lv, At(lv, i).nextIdx).val = At(lv, i).nextVal
                /\ (\A j \in idx : ~Lt(At(lv, i).val, At(lv, j).val))
                       => (At(lv, i).nextVal = Num(0) /\ At(lv, i).nextIdx = 0)

\* a value went in between two values: three links were set, the maximum
\* still points back at index 0
C33_Witness ==
    /\ last.op = "insert" /\ last.result = "ok"
    /\ size(trees[1]) = 4
    /\ At(trees[1].leaves, 3).nextIdx \in 1..2
    /\ At(trees[1].leaves, 0).nextIdx # 3

\* C34: with hash2 collision-free, two trees reached by inserts have equal
\* roots only if they have the same size and, at every index, leaves with
\* the same val and nextVal; and every successful insert changes the root.
C34_RootBinds ==
    /\ []((trees[2] # NoTree /\ root(trees[1]) = root(trees[2])) =>
              /\ size(trees[1]) = size(trees[2])
              /\ \A i \in 0..(size(trees[1]) - 1) :
                     /\ At(trees[1].leaves, i).val = At(trees[2].leaves, i).val
                     /\ At(trees[1].leaves, i).nextVal = At(trees[2].leaves, i).nextVal)
    /\ [][(last'.op = "insert" /\ last'.result = "ok")
              => root(trees'[last'.t]) # root(trees[last'.t])]_vars

\* two full trees that agree on their first two leaves' vals and differ after
\* them have different roots
C34_Witness ==
    /\ trees[2] # NoTree
    /\ size(trees[1]) = 4 /\ size(trees[2]) = 4
    /\ At(trees[1].leaves, 1).val = At(trees[2].leaves, 1).val
    /\ At(trees[1].leaves, 2).val # At(trees[2].leaves, 2).val
    /\ root(trees[1]) # root(trees[2])
    /\ last.op = "insert" /\ last.result = "ok"

--------------------------------------------------------------------------
(* Freshness *)

\* C35: a proof for query q made by a tree in which q was absent is still
\* accepted when verified by a tree that meanwhile contains q.
C35_StaleProofAccepted ==
    (proof.made /\ proof.absent /\ hasVal(trees[1].leaves, proof.query))
        => verifyNonMembershipProof(trees[1], Held)

\* the proof as createNonMembershipProof returned it (its preLeaf with the
\* fields it had then) is accepted in every later state of the tree, the
\* states in which the query has become a leaf included
StaleValueAccepted ==
    (proof.made /\ proof.absent)
        => verifyNonMembershipProof(trees[1], [Held EXCEPT !.preLeaf = proof.snap])

====
